---- MODULE Spec2Model ----
(***************************************************************************)
(* Model of the link checker of awesome-rust (src/main.rs): the permit     *)
(* pool MaxHandles, the per-URL retry/rewrite loop get_url, and the        *)
(* parse / drain / persist loop of main.                                   *)
(*                                                                         *)
(* A URL is the sequence of the parts of its string between the "/" that   *)
(* follow the host: <<"https://github.com", "o", "r", "actions">> stands   *)
(* for "https://github.com/o/r/actions".                                   *)
(***************************************************************************)
EXTENDS Integers, Sequences, FiniteSets, TLC

(***************************************************************************)
(* Bounds of the model and constants of the program.                       *)
(***************************************************************************)
\* HANDLES = MaxHandles::new(20) in the program; the model runs the same
\* pool with a smaller capacity so that exhaustion is reached by few checks.
Capacity == 2

\* Longest README (number of candidate URLs the parser yields).
MaxDoc == 2

\* Longest README of the runs that exercise the pool alone.
MaxPoolDoc == 3

\* for _ in 0..5u8
MaxAttempts == 5

\* StatusCode::OK, StatusCode::NOT_FOUND
StatusOK == 200
StatusNotFound == 404

(***************************************************************************)
(* URLs.                                                                   *)
(***************************************************************************)
GitHub == "https://github.com"

UrlPlain   == <<"http://x.org", "p">>
UrlRepo    == <<GitHub, "o", "r">>
UrlActions == <<GitHub, "o", "r", "actions">>
UrlWorkflow == <<GitHub, "o", "r", "actions?workflow=ci">>
UrlMail    == <<"mailto:x">>
UrlGone    == <<"http://x.org", "gone">>
UrlUp      == <<"http://x.org", "up">>
UrlNested  == <<GitHub, "o", "r", "actions", "actions">>
UrlMoved   == <<GitHub, "m", "r", "actions">>
UrlMovedTo == <<GitHub, "m", "r">>

\* The candidates a README of the model is made of.
Candidates == {UrlPlain, UrlActions, UrlMail}

\* Every URL of the model, in the byte order of the strings (the order of
\* BTreeSet<String> and of the keys of BTreeMap<String, String>).
UrlOrder ==
    <<UrlGone, UrlPlain, UrlUp, UrlMovedTo, UrlMoved, UrlRepo, UrlActions,
      UrlNested, UrlWorkflow, UrlMail>>

AllUrls == {UrlOrder[k] : k \in 1..Len(UrlOrder)}

\* url.starts_with("http"), on the first part of the URL
starts_with_http(url) ==
    Len(url) > 0 /\ url[1] \in {"http://x.org", GitHub}

\* The parts that "/actions(?:\?workflow=.+)?" matches from their start:
\* "actions" itself, or "actions" with a query, which then takes the rest
\* of the string with it (.+ is greedy and matches "/").
ActionsPart(seg) == seg \in {"actions", "actions?workflow=ci"}
TakesRest(seg) == seg = "actions?workflow=ci"

\* Leftmost start of a match of ACTIONS_REGEX in url, 0 if there is none:
\* the host literal, two non-empty parts without "/", then "/actions".
MatchStart(url) ==
    LET starts == {p \in 1..Len(url) :
                      /\ url[p] = GitHub
                      /\ p + 3 <= Len(url)
                      /\ ActionsPart(url[p + 3])}
    IN IF starts = {} THEN 0
       ELSE CHOOSE p \in starts : \A q \in starts : p <= q

\* ACTIONS_REGEX.is_match(&url): unanchored
is_match(url) == MatchStart(url) # 0

\* ACTIONS_REGEX.replace_all(&url, "https://github.com/$org/$repo"):
\* every non-overlapping match, left to right, becomes host/org/repo and
\* the text around the matches is kept.
RECURSIVE replace_all(_)
replace_all(url) ==
    LET p == MatchStart(url)
        e == IF TakesRest(url[p + 3]) THEN Len(url) ELSE p + 3
    IN IF p = 0 THEN url
       ELSE SubSeq(url, 1, p - 1) \o <<GitHub, url[p + 1], url[p + 2]>>
            \o replace_all(SubSeq(url, e + 1, Len(url)))

(***************************************************************************)
(* CheckerError, the result of a check, and its rendering.                 *)
(***************************************************************************)
NoLocation == "None"

NotTried == [tag |-> "NotTried", status |-> 0, location |-> NoLocation, error |-> 0]

\* error: the reqwest::Error that the k-th request of the loop returned
ReqwestError(k) ==
    [tag |-> "ReqwestError", status |-> 0, location |-> NoLocation, error |-> k]

HttpError(status, location) ==
    [tag |-> "HttpError", status |-> status, location |-> location, error |-> 0]

\* Ok(format!("{:?}", ok))
OkResponse == [tag |-> "Ok", status |-> StatusOK, location |-> NoLocation, error |-> 0]

is_ok(res) == res.tag = "Ok"

\* status.is_redirection()
is_redirection(status) == status >= 300 /\ status < 400

\* a message without the URL
MessageOfStatus(url, err) ==
    IF err.tag = "HttpError"
    THEN <<"[", err.status, "]">>
    ELSE IF err.tag = "ReqwestError"
         THEN <<"ReqwestError", err.error>>
         ELSE <<"NotTried">>

\* The message main stores in results.failed for (url, Err(err)).
Message(url, err) ==
    IF err.tag = "HttpError"
    THEN IF err.location # NoLocation
         THEN <<"[", err.status, "] ", url, " -> ", err.location>>
         ELSE <<"[", err.status, "] ", url>>
    ELSE IF err.tag = "ReqwestError"
         THEN <<"ReqwestError", err.error>>
         ELSE <<"NotTried">>

(***************************************************************************)
(* Results and results.yaml.                                               *)
(***************************************************************************)
\* Results::new()
NewResults == [working |-> {}, failed |-> <<>>]

\* a sequence that ends with the first member found
RECURSIVE SortedFirst(_, _)
SortedFirst(s, k) ==
    IF k > Len(UrlOrder) THEN <<>>
    ELSE IF UrlOrder[k] \in s THEN <<UrlOrder[k]>> ELSE SortedFirst(s, k + 1)

\* The sequence, in the order of UrlOrder, of the members of s
RECURSIVE Sorted(_, _)
Sorted(s, k) ==
    IF k > Len(UrlOrder) THEN <<>>
    ELSE (IF UrlOrder[k] \in s THEN <<UrlOrder[k]>> ELSE <<>>) \o Sorted(s, k + 1)

\* serde_yaml::to_string(&results): working as a sorted sequence, failed as
\* a sequence of key: value pairs in key order.
to_string(r) ==
    LET keys == Sorted(DOMAIN r.failed, 1)
    IN [kind |-> "yaml",
        working |-> Sorted(r.working, 1),
        failed |-> [k \in 1..Len(keys) |-> <<keys[k], r.failed[keys[k]]>>]]

\* serde_yaml::from_str(&x) followed by the unwrap_or of main: a missing or
\* undecodable file gives Results::new().
from_str(file) ==
    IF file.kind # "yaml" THEN NewResults
    ELSE LET keys == {file.failed[k][1] : k \in 1..Len(file.failed)}
         IN [working |-> {file.working[k] : k \in 1..Len(file.working)},
             failed |-> [u \in keys |->
                 LET k == CHOOSE j \in 1..Len(file.failed) : file.failed[j][1] = u
                 IN file.failed[k][2]]]

(***************************************************************************)
(* State.                                                                  *)
(***************************************************************************)
VARIABLES
    mainpc,      \* where main is: "load", "parse", "select", "write", "report", "exit"
    doc,         \* the candidate URLs the parser yields from README.md, in order
    pos,         \* number of candidates main has passed to do_check
    file,        \* results.yaml
    results,     \* results: Results of main
    futs,        \* the futures get_url returned, by number
    url_checks,  \* the numbers of the futures still in url_checks
    remaining,   \* HANDLES.remaining
    down,        \* the URLs whose host no request reaches in this run
    answers,     \* what the hosts that are reached answer in this run
    exit,        \* the Result main returns: "none" while it runs, "Ok", "Err"
    last,        \* the completion the drain loop took last
    hist         \* what happened in this run (for the properties only)

vars == <<mainpc, doc, pos, file, results, futs, url_checks, remaining, down, answers, exit, last, hist>>

\* The answer to the last request of a loop that has not ended (for the
\* properties only).
NoAnswer == [kind |-> "none", status |-> 0, location |-> NoLocation]

\* A future of get_url(url), not yet polled: line 83, about to enter get.
\* frames are the URLs of the nested get_url calls, the outermost first;
\* pc, current, i and res belong to the innermost one, the others wait at
\* line 107 holding their handle.
NewFuture(url) ==
    [url |-> url, frames |-> <<url>>, pc |-> "load", current |-> 0, i |-> 0,
     res |-> NotTried, ret_url |-> <<>>, handles |-> 0, rewrites |-> <<>>,
     final |-> NoAnswer]

\* A future that select_all has returned and main has dropped.
Taken(fut) ==
    [NewFuture(fut.url) EXCEPT !.frames = <<>>, !.pc = "taken"]

NoCompletion ==
    [url |-> <<>>, res |-> NotTried, orig |-> <<>>, attempts |-> 0,
     rewrites |-> <<>>, final |-> NoAnswer]

\* Handles alive in the frames of a future.
Held(fut) == fut.handles

RECURSIVE SumHeld(_)
SumHeld(ids) ==
    IF ids = {} THEN 0
    ELSE LET f == CHOOSE x \in ids : TRUE
         IN Held(futs[f]) + SumHeld(ids \ {f})

\* Handles acquired and not yet dropped.
Outstanding == SumHeld(DOMAIN futs)

\* Requests sent and not yet answered.
InFlight == {f \in DOMAIN futs : futs[f].pc = "send"}

(***************************************************************************)
(* MaxHandles::get and Drop for Handle.  A future runs only while main     *)
(* awaits select_all, which polls the futures of url_checks.               *)
(***************************************************************************)
\* A future that has left its loop runs on to its return and into main
\* without an await, so no other future is polled until main has taken it.
Returning == {f \in url_checks : futs[f].pc \in {"ret", "done"}}

Polled(f) == mainpc = "select" /\ f \in url_checks /\ Returning \subseteq {f}

\* get without the test of the loaded count
get_load_unchecked(f) ==
    /\ Polled(f)
    /\ futs[f].pc = "load"
    /\ futs' = [futs EXCEPT ![f].current = remaining, ![f].pc = "cas"]
    /\ UNCHANGED <<mainpc, doc, pos, file, results, url_checks, remaining, down, answers, exit, last, hist>>

\* let current = self.remaining.load(Ordering::Relaxed); if current > 0
get_load(f) ==
    /\ Polled(f)
    /\ futs[f].pc = "load"
    /\ futs' = [futs EXCEPT ![f].current = remaining,
                            ![f].pc = IF remaining > 0 THEN "cas" ELSE "sleep"]
    /\ UNCHANGED <<mainpc, doc, pos, file, results, url_checks, remaining, down, answers, exit, last, hist>>

\* a store in place of the compare-and-swap
compare_and_swap_store(value, current, new) == new

\* self.remaining.compare_and_swap(current, current - 1, Relaxed): the value
\* remaining has after the call.
compare_and_swap(value, current, new) ==
    IF value = current THEN new ELSE value

\* if new_current == current { return Handle { parent: self } }: the handle
\* is returned to get_url, which sends its first request; otherwise sleep.
get_cas(f) ==
    /\ Polled(f)
    /\ futs[f].pc = "cas"
    /\ LET current == futs[f].current
           new_current == remaining
       IN /\ remaining' = compare_and_swap(remaining, current, current - 1)
          /\ futs' = [futs EXCEPT
                 ![f].current = 0,
                 ![f].pc = IF new_current = current THEN "send" ELSE "sleep",
                 ![f].handles = IF new_current = current THEN @ + 1 ELSE @]
    /\ UNCHANGED <<mainpc, doc, pos, file, results, url_checks, down, answers, exit, last, hist>>

\* task::sleep(time::Duration::from_millis(500)).await is over
get_sleep(f) ==
    /\ Polled(f)
    /\ futs[f].pc = "sleep"
    /\ futs' = [futs EXCEPT ![f].pc = "load", ![f].current = 0]
    /\ UNCHANGED <<mainpc, doc, pos, file, results, url_checks, remaining, down, answers, exit, last, hist>>

\* a drop that does not give the handle back
fetch_add_lost(value) == value

\* self.parent.remaining.fetch_add(1, Ordering::Relaxed): the value after
\* the call.  The AtomicU32 wraps at 2^32, which no counter of the model,
\* bounded by the handles acquired, comes near.
fetch_add(value) == value + 1

\* the nested call's URL returned in place of the frame's own
ReturnedNewUrl(url, new_url) == new_url

\* What a get_url frame returns for the (_new_url, res) of the nested call:
\* return (url, res), with its own url.
ReturnedUrl(url, new_url) == url

\* a get_url that records its outcome in results itself when it returns
drop_recording(f) ==
    /\ Polled(f)
    /\ futs[f].pc = "ret"
    /\ remaining' = fetch_add(remaining)
    /\ LET fut == futs[f]
           n == Len(fut.frames)
       IN /\ futs' = [futs EXCEPT
                 ![f].frames = SubSeq(fut.frames, 1, n - 1),
                 ![f].handles = fut.handles - 1,
                 ![f].pc = IF n > 1 THEN "ret" ELSE "done",
                 ![f].ret_url = IF n > 1 THEN ReturnedUrl(fut.frames[n - 1], fut.ret_url)
                                ELSE fut.ret_url]
          /\ results' = IF n > 1 \/ is_ok(fut.res) THEN results
                        ELSE [results EXCEPT !.failed =
                                [u \in DOMAIN results.failed \cup {fut.ret_url} |->
                                    IF u = fut.ret_url THEN Message(u, fut.res)
                                    ELSE results.failed[u]]]
    /\ UNCHANGED <<mainpc, doc, pos, file, url_checks, down, answers, exit, last, hist>>

\* A get_url frame returns: its _handle is dropped, and the frame that
\* awaited it at line 107, if any, returns in turn.
drop(f) ==
    /\ Polled(f)
    /\ futs[f].pc = "ret"
    /\ remaining' = fetch_add(remaining)
    /\ LET fut == futs[f]
           n == Len(fut.frames)
       IN futs' = [futs EXCEPT
               ![f].frames = SubSeq(fut.frames, 1, n - 1),
               ![f].handles = fut.handles - 1,
               ![f].pc = IF n > 1 THEN "ret" ELSE "done",
               ![f].ret_url = IF n > 1 THEN ReturnedUrl(fut.frames[n - 1], fut.ret_url)
                              ELSE fut.ret_url]
    /\ UNCHANGED <<mainpc, doc, pos, file, results, url_checks, down, answers, exit, last, hist>>

(***************************************************************************)
(* get_url: the retry loop.                                                *)
(***************************************************************************)
NoResponse == [kind |-> "err", status |-> 0, location |-> NoLocation]

\* What CLIENT.get(&url).send().await can give: Err(err), or Ok(ok) with a
\* status and, possibly, a Location header.
Responses ==
    {NoResponse}
    \cup {[kind |-> "ok", status |-> st, location |-> loc] :
             st \in {StatusOK, 301, StatusNotFound}, loc \in {NoLocation, "loc"}}

\* The answer of a host that is out of service: 503 without a Location.
Unavailable == [kind |-> "ok", status |-> 503, location |-> NoLocation]

\* The answer for a page that does not exist.
NotFound == [kind |-> "ok", status |-> StatusNotFound, location |-> NoLocation]

\* The URLs that are answered the same way in every run: UrlGone is on a
\* host that is out of service, UrlMoved is a page that does not exist.
Fixed == (UrlGone :> Unavailable) @@ (UrlMoved :> NotFound)

\* What a request for url can give in this run.
Answers(url) ==
    IF url \in down THEN {NoResponse}
    ELSE IF url \in DOMAIN Fixed THEN {Fixed[url]}
    ELSE answers

\* status == StatusCode::NOT_FOUND && ACTIONS_REGEX.is_match(&url)
Rewritten(status, url) == status = StatusNotFound /\ is_match(url)

\* a transport error that is not recorded in res
ErrorOfStatusOnly(r, k) ==
    IF r.kind = "err" THEN NotTried
    ELSE IF is_redirection(r.status) THEN HttpError(r.status, r.location)
    ELSE HttpError(r.status, NoLocation)

\* the Location header taken from every response
ErrorOfAnyStatus(r, k) ==
    IF r.kind = "err" THEN ReqwestError(k)
    ELSE HttpError(r.status, r.location)

\* The error res is set to after the k-th request gave r (lines 95, 112-116).
ErrorOf(r, k) ==
    IF r.kind = "err" THEN ReqwestError(k)
    ELSE IF is_redirection(r.status) THEN HttpError(r.status, r.location)
    ELSE HttpError(r.status, NoLocation)

\* a loop left after its first iteration
ContinuesNever(k) == FALSE

\* a loop of one iteration more
ContinuesOnceMore(k) == k <= MaxAttempts

\* Whether the loop goes on after its k-th iteration ended in continue.
Continues(k) == k < MaxAttempts

\* The request of iteration i + 1 is answered by r.
respond(f, r) ==
    /\ Polled(f)
    /\ futs[f].pc = "send"
    /\ r \in Answers(futs[f].frames[Len(futs[f].frames)])
    /\ LET fut == futs[f]
           url == fut.frames[Len(fut.frames)]
           k == fut.i + 1
       IN futs' = [futs EXCEPT ![f] =
            IF r.kind = "ok" /\ r.status = StatusOK
            THEN \* res = Ok(..); break; (url, res)
                 [fut EXCEPT !.res = OkResponse, !.i = k, !.pc = "ret",
                             !.ret_url = url,
                             !.final = [r EXCEPT !.location = NoLocation]]
            ELSE IF r.kind = "ok" /\ Rewritten(r.status, url)
            THEN \* get_url(rewritten.to_string()).await
                 [fut EXCEPT !.frames = Append(fut.frames, replace_all(url)),
                             !.pc = "load", !.i = 0, !.res = NotTried,
                             !.rewrites = Append(fut.rewrites, replace_all(url))]
            ELSE \* res = Err(..); continue
                 [fut EXCEPT !.res = ErrorOf(r, k), !.i = k,
                             !.pc = IF Continues(k) THEN "send" ELSE "ret",
                             !.ret_url = IF Continues(k) THEN <<>> ELSE url,
                             !.final = IF Continues(k) THEN NoAnswer ELSE r]]
    /\ UNCHANGED <<mainpc, doc, pos, file, results, url_checks, remaining, down, answers, exit, last, hist>>

(***************************************************************************)
(* main.                                                                   *)
(***************************************************************************)
\* What results is after lines 150-154
LoadResults(f) == [from_str(f) EXCEPT !.failed = <<>>]

load ==
    /\ mainpc = "load"
    /\ results' = LoadResults(file)
    /\ hist' = [hist EXCEPT !.loaded = results'.working]
    /\ mainpc' = "parse"
    /\ UNCHANGED <<doc, pos, file, futs, url_checks, remaining, down, answers, exit, last>>

\* do_check without the test of results.working
ScheduledUncached(url) == starts_with_http(url)

\* Whether do_check(url) pushes a check (lines 159-164)
Scheduled(url) == starts_with_http(url) /\ url \notin results.working

\* a loop that is left without a test of url_checks
LoopLeft(checks) == "report"

\* while url_checks.len() > 0
LoopOrReport(checks) == IF checks # {} THEN "select" ELSE "report"

\* The parser yields the next candidate and main calls do_check on it.
do_check ==
    /\ mainpc = "parse"
    /\ pos < Len(doc)
    /\ pos' = pos + 1
    /\ LET url == doc[pos + 1]
           f == Len(futs) + 1
       IN IF Scheduled(url)
          THEN /\ futs' = Append(futs, NewFuture(url))
               /\ url_checks' = url_checks \cup {f}
          ELSE UNCHANGED <<futs, url_checks>>
    /\ UNCHANGED <<mainpc, doc, file, results, remaining, down, answers, exit, last, hist>>

\* The parser is at the end of README.md.
parsed ==
    /\ mainpc = "parse"
    /\ pos = Len(doc)
    /\ mainpc' = LoopOrReport(url_checks)
    /\ UNCHANGED <<doc, pos, file, results, futs, url_checks, remaining, down, answers, exit, last, hist>>

\* results after the match of lines 202-226 on (url, res)
\* a failed URL taken out of working
InsertExclusive(r, url, res) ==
    IF is_ok(res)
    THEN [r EXCEPT !.working = r.working \cup {url}]
    ELSE [r EXCEPT !.working = r.working \ {url},
                   !.failed =
            [u \in DOMAIN r.failed \cup {url} |->
                IF u = url THEN Message(url, res) ELSE r.failed[u]]]

Insert(r, url, res) ==
    IF is_ok(res)
    THEN [r EXCEPT !.working = r.working \cup {url}]
    ELSE [r EXCEPT !.failed =
            [u \in DOMAIN r.failed \cup {url} |->
                IF u = url THEN Message(url, res) ELSE r.failed[u]]]

\* select_all(url_checks).await returns the output of a finished future and
\* the others; main records the outcome.
select_all(f) ==
    /\ mainpc = "select"
    /\ f \in url_checks
    /\ futs[f].pc = "done"
    /\ LET fut == futs[f]
       IN /\ results' = Insert(results, fut.ret_url, fut.res)
          /\ last' = [url |-> fut.ret_url, res |-> fut.res, orig |-> fut.url,
                      attempts |-> fut.i, rewrites |-> fut.rewrites,
                      final |-> fut.final]
          /\ hist' = [hist EXCEPT
                 !.nsel = hist.nsel + 1,
                 !.ok = IF is_ok(fut.res) THEN hist.ok \cup {fut.ret_url} ELSE hist.ok,
                 !.err = IF is_ok(fut.res) THEN hist.err ELSE hist.err \cup {fut.ret_url}]
          /\ futs' = [futs EXCEPT ![f] = Taken(fut)]
    /\ url_checks' = url_checks \ {f}
    /\ mainpc' = "write"
    /\ UNCHANGED <<doc, pos, file, remaining, down, answers, exit>>

\* a write after the last completion only
write_at_end ==
    /\ mainpc = "write"
    /\ file' = IF url_checks = {} THEN to_string(results) ELSE file
    /\ hist' = [hist EXCEPT !.nwrite = hist.nwrite + 1]
    /\ mainpc' = IF url_checks # {} THEN "select" ELSE "report"
    /\ last' = NoCompletion
    /\ UNCHANGED <<doc, pos, results, futs, url_checks, remaining, down, answers, exit>>

\* fs::write("results.yaml", serde_yaml::to_string(&results)?)?, taken to
\* succeed, and the test of the loop.
write ==
    /\ mainpc = "write"
    /\ file' = to_string(results)
    /\ hist' = [hist EXCEPT !.nwrite = hist.nwrite + 1]
    /\ mainpc' = LoopOrReport(url_checks)
    /\ last' = NoCompletion
    /\ UNCHANGED <<doc, pos, results, futs, url_checks, remaining, down, answers, exit>>

report_ok ==
    /\ mainpc = "report"
    /\ exit' = "Ok"
    /\ mainpc' = "exit"
    /\ UNCHANGED <<doc, pos, file, results, futs, url_checks, remaining, down, answers, last, hist>>

\* lines 230-239
report ==
    /\ mainpc = "report"
    /\ exit' = IF DOMAIN results.failed = {} THEN "Ok" ELSE "Err"
    /\ mainpc' = "exit"
    /\ UNCHANGED <<doc, pos, file, results, futs, url_checks, remaining, down, answers, last, hist>>

(***************************************************************************)
(* The inputs: README.md and the results.yaml a prior run left.            *)
(***************************************************************************)
RECURSIVE SeqsUpTo(_, _)
SeqsUpTo(S, n) ==
    IF n = 0 THEN {<<>>}
    ELSE LET shorter == SeqsUpTo(S, n - 1)
         IN shorter \cup {Append(s, x) : s \in {t \in shorter : Len(t) = n - 1}, x \in S}

Docs == SeqsUpTo(Candidates, MaxDoc)

StaleMessage == <<"[", 503, "] ", "stale">>

\* results.yaml as a prior run left it: absent, not decodable, or the store
\* of a run that found UrlPlain working and UrlActions failing.
PriorStore ==
    to_string([working |-> {UrlPlain},
               failed |-> [u \in {UrlActions} |-> StaleMessage]])

PriorFiles == {[kind |-> "missing"], PriorStore}

InitWith(docs, files, downs, nets) ==
    /\ mainpc = "load"
    /\ doc \in docs
    /\ pos = 0
    /\ file \in files
    /\ results = NewResults
    /\ futs = <<>>
    /\ url_checks = {}
    /\ remaining = Capacity
    /\ down \in downs
    /\ answers \in nets
    /\ exit = "none"
    /\ last = NoCompletion
    /\ hist = [loaded |-> {}, nsel |-> 0, nwrite |-> 0, ok |-> {}, err |-> {}]

Init == InitWith(Docs, PriorFiles, {{}}, {Responses})

Next ==
    \/ load
    \/ do_check
    \/ parsed
    \/ \E f \in url_checks : get_load(f)
    \/ \E f \in url_checks : get_cas(f)
    \/ \E f \in url_checks : get_sleep(f)
    \/ \E f \in url_checks, r \in Responses \cup {Unavailable} : respond(f, r)
    \/ \E f \in url_checks : drop(f)
    \/ \E f \in url_checks : select_all(f)
    \/ write
    \/ report

Spec == Init /\ [][Next]_vars

(***************************************************************************)
(* Runs that exercise the pool: more checks than handles, and hosts that   *)
(* answer every request with 200 or 404, so that a check ends or rewrites  *)
(* quickly.                                                                *)
(***************************************************************************)
PoolDocs == SeqsUpTo({UrlActions}, MaxPoolDoc)

PoolAnswers ==
    {[kind |-> "ok", status |-> st, location |-> NoLocation] :
        st \in {StatusOK, StatusNotFound}}

PoolInit == InitWith(PoolDocs, {[kind |-> "missing"]}, {{}}, {PoolAnswers})

SpecPool == PoolInit /\ [][Next]_vars

(***************************************************************************)
(* Properties.                                                             *)
(***************************************************************************)
Acquiring(fut) == fut.pc \in {"load", "cas", "sleep"}

\* C1: the handles acquired and not yet dropped never exceed the capacity
\* of the pool, whatever the interleaving of the loads, the compare-and-swaps
\* and the drops, and a step in which get returns a handle is the
\* compare-and-swap of a future that had loaded a count above 0.
C1_PermitsBounded ==
    /\ [](Outstanding <= Capacity)
    /\ [][\A f \in DOMAIN futs :
            futs'[f].handles > futs[f].handles
                => futs[f].pc = "cas" /\ futs[f].current > 0]_vars

\* All handles are out and a future that loaded 0 sleeps.
C1_Witness ==
    /\ Outstanding = Capacity
    /\ \E f \in DOMAIN futs : futs[f].pc = "sleep" /\ futs[f].current = 0

\* C2: the requests in flight never exceed the capacity of the pool, and
\* every get_url frame of a future with a request in flight, the sending one
\* included, holds a handle.
C2_RequestsBounded ==
    /\ Cardinality(InFlight) <= Capacity
    /\ \A f \in InFlight : futs[f].handles = Len(futs[f].frames)

\* As many requests in flight as the pool has handles, and a further check
\* that waits for one.
C2_Witness ==
    /\ Cardinality(InFlight) = Capacity
    /\ \E f \in url_checks : futs[f].pc = "sleep"

AllConcluded == mainpc \in {"report", "exit"}

\* C3: every handle acquired is dropped exactly once: the counter and the
\* handles alive always add up to the capacity, the counter never exceeds
\* it, and once every scheduled check has concluded the counter is the
\* capacity again and no future holds a handle.
C3_ReleasesMatchAcquires ==
    /\ remaining + Outstanding = Capacity
    /\ remaining <= Capacity
    /\ AllConcluded => remaining = Capacity /\ Outstanding = 0

\* The last check of a run returned through the rewrite, after a check
\* that succeeded and a check that failed on its last attempt, and every
\* handle is back.
C3_Witness ==
    /\ mainpc = "write"
    /\ url_checks = {}
    /\ last.rewrites # <<>>
    /\ hist.ok # {}
    /\ hist.err # {}
    /\ remaining = Capacity

\* C4: no state is reachable in which every handle is held by a future that
\* waits for a handle.
C4_NoPermitDeadlock ==
    ~ /\ Outstanding = Capacity
      /\ \A f \in DOMAIN futs : futs[f].handles > 0 => Acquiring(futs[f])

\* The keys of the failed mapping of a store
FailedKeys(r) == DOMAIN r.failed

\* C5: a URL is never both in working and a key of failed, in results and
\* in the store that results.yaml holds.
C5_WorkingFailedDisjoint ==
    /\ results.working \cap FailedKeys(results) = {}
    /\ from_str(file).working \cap FailedKeys(from_str(file)) = {}

\* The candidates among the first n of doc that do_check has to schedule:
\* those that start with "http" and are not in the working set as loaded.
Eligible(n) ==
    {k \in 1..n : starts_with_http(doc[k]) /\ doc[k] \notin hist.loaded}

\* C6: once results.yaml is loaded, the checks scheduled so far are as many
\* as the candidates passed to do_check that start with "http" and are not
\* in the loaded working set, and no check is for a URL of the loaded
\* working set or for a URL without the prefix.
C6_CacheHitsNotScheduled ==
    mainpc # "load" =>
        /\ Len(futs) = Cardinality(Eligible(pos))
        /\ \A f \in DOMAIN futs :
              futs[f].url \notin hist.loaded /\ starts_with_http(futs[f].url)

\* The README is parsed: it names a URL of the loaded working set and a URL
\* that is checked.
C6_Witness ==
    /\ mainpc = "select"
    /\ \E k \in 1..Len(doc) : doc[k] \in hist.loaded
    /\ Len(futs) = 1

\* The store holds the outcome res under the key url.
Recorded(r, url, res) ==
    IF is_ok(res) THEN url \in r.working
    ELSE url \in FailedKeys(r) /\ r.failed[url] = Message(url, res)

\* C7: when main has taken the completion of a check of an actions URL that
\* got a 404, that check started exactly one nested check, of
\* https://github.com/o/r, the completion carries the URL as scheduled, the
\* outcome is stored under that URL, and the rewritten URL is no key of the
\* store.
C7_RewriteKeepsOriginalKey ==
    (mainpc = "write" /\ last.orig \in {UrlActions, UrlWorkflow}
                      /\ last.rewrites # <<>>) =>
        /\ last.rewrites = <<UrlRepo>>
        /\ last.url = last.orig
        /\ Recorded(results, last.orig, last.res)
        /\ UrlRepo \notin results.working \cup FailedKeys(results)

\* The check of the URL with the query was rewritten and failed.
C7_Witness ==
    /\ mainpc = "write"
    /\ last.orig = UrlWorkflow
    /\ last.rewrites = <<UrlRepo>>
    /\ ~is_ok(last.res)
    /\ UrlWorkflow \in FailedKeys(results)

\* C8: when main has taken the completion of a check of a URL that no
\* request reaches, the check has sent exactly MaxAttempts requests and the
\* message stored under the URL renders the error of the last of them.
C8_TransportFailureAfterFive ==
    (mainpc = "write" /\ last.orig \in down) =>
        /\ last.attempts = MaxAttempts
        /\ last.rewrites = <<>>
        /\ last.res = ReqwestError(MaxAttempts)
        /\ last.url \in FailedKeys(results)
        /\ results.failed[last.url] = <<"ReqwestError", MaxAttempts>>

\* A check of an unreachable URL has been recorded as failed.
C8_Witness ==
    /\ mainpc = "write"
    /\ last.orig \in down
    /\ last.url \in FailedKeys(results)

\* The store a run has in results.yaml: what it loaded, until it writes.
Persisted == IF hist.nwrite = 0 THEN LoadResults(file) ELSE from_str(file)

C10_FailedRebuilt ==
    mainpc = "exit" =>
        /\ FailedKeys(results) = hist.err
        /\ FailedKeys(from_str(file)) = hist.err

(***************************************************************************)
(* Runs over the two forms of an actions URL.                              *)
(***************************************************************************)
RewriteInit ==
    InitWith(SeqsUpTo({UrlActions, UrlWorkflow}, MaxDoc), {[kind |-> "missing"]},
             {{}, {UrlRepo}}, {PoolAnswers \cup {NoResponse}})

SpecRewrite == RewriteInit /\ [][Next]_vars

(***************************************************************************)
(* Runs in which a host is not reached.                                    *)
(***************************************************************************)
DownInit ==
    InitWith(Docs, {[kind |-> "corrupt"]}, {{UrlPlain}, {UrlActions}}, {Responses})

SpecDown == DownInit /\ [][Next]_vars

(***************************************************************************)
(* The report of the run.                                                  *)
(***************************************************************************)
\* C11: the run ends with Ok only if failed is empty and with Err whenever
\* a check ended in failed, and it ends (with either) only after the output
\* of every future of url_checks has been taken, however many of them
\* failed.
C11_ReportAfterDrain ==
    /\ exit = "Ok" => DOMAIN results.failed = {} /\ hist.err = {}
    /\ exit = "Err" => DOMAIN results.failed # {}
    /\ mainpc = "exit" /\ hist.err # {} => exit = "Err"
    /\ mainpc = "exit" <=> exit # "none"
    /\ mainpc \in {"report", "exit"} =>
          /\ url_checks = {}
          /\ hist.nsel = Len(futs)
          /\ \A f \in DOMAIN futs : futs[f].pc = "taken"

\* A run of two checks has ended with Err after one check failed and the
\* other succeeded.
C11_Witness ==
    /\ mainpc = "exit"
    /\ exit = "Err"
    /\ Len(futs) = 2
    /\ hist.ok # {}
    /\ hist.err # {}

(***************************************************************************)
(* Runs from the README to the report in which every URL is answered the   *)
(* same way each time it is requested: 200, but for the URLs of Fixed and  *)
(* of down.  The links of the README are distinct.                         *)
(***************************************************************************)
MaxFixedDoc == 3

FixedUrls == {UrlUp, UrlPlain, UrlGone, UrlMoved}

Ok200 == [kind |-> "ok", status |-> StatusOK, location |-> NoLocation]

FixedDocs ==
    {d \in SeqsUpTo(FixedUrls, MaxFixedDoc) :
        \A j, k \in 1..Len(d) : d[j] = d[k] => j = k}

FixedInit ==
    InitWith(FixedDocs, PriorFiles, {{}, {UrlMovedTo}}, {{Ok200}})

SpecFixed == FixedInit /\ [][Next]_vars

\* The links of the README that main has checks for.
Checked == {u \in {doc[k] : k \in 1..Len(doc)} : starts_with_http(u) /\ u \notin hist.loaded}

\* url is answered 200 at each of its requests.
Answers200(url) == Answers(url) = {Ok200}

\* The check of url ends in Ok: url is answered 200, or it is an actions URL
\* answered 404 and the check of the URL it is rewritten to ends in Ok.
RECURSIVE Succeeds(_)
Succeeds(url) ==
    \/ Answers200(url)
    \/ /\ Answers(url) = {NotFound}
       /\ is_match(url)
       /\ Succeeds(replace_all(url))

\* The error of the last of the 5 requests for url, or for the URL the
\* check of url ends with.
RECURSIVE LastError(_)
LastError(url) ==
    IF Answers(url) = {NoResponse} THEN ReqwestError(MaxAttempts)
    ELSE IF Answers(url) = {NotFound} /\ is_match(url) THEN LastError(replace_all(url))
    ELSE LET r == CHOOSE a \in Answers(url) : TRUE
         IN  HttpError(r.status, NoLocation)

\* The text of the message for an HTTP status without a redirect target.
StatusMessage(status, url) == <<"[", status, "] ", url>>

\* C12 as stated: at the end of the run working is the loaded working and
\* the checked URLs that were answered 200, failed has an entry for each
\* other checked URL and for no other, and the run ends with Err exactly
\* when failed is not empty.
C12_WorkingAnswered200 ==
    mainpc = "exit" =>
        /\ results.working = hist.loaded \cup {u \in Checked : Answers200(u)}
        /\ DOMAIN results.failed = {u \in Checked : ~Answers200(u)}
        /\ exit = "Err" <=> DOMAIN results.failed # {}

\* C12, amended: at the end of the run, in whatever order the checks
\* completed, working is the loaded working and the checked URLs whose check
\* ended in Ok (answered 200, or an actions URL answered 404 whose rewritten
\* URL was answered 200); failed has exactly one entry for each other checked
\* URL, with the message "[<status>] <url>" when the last error was an HTTP
\* status; the run ends with Err exactly when failed is not empty.  Two URLs
\* answered 200 and one answered 503 give failed = {url503 -> "[503] url503"},
\* and an empty README with no prior store gives an empty store and Ok.
C12_EndToEnd ==
    mainpc = "exit" =>
        /\ results.working = hist.loaded \cup {u \in Checked : Succeeds(u)}
        /\ DOMAIN results.failed = {u \in Checked : ~Succeeds(u)}
        /\ \A u \in DOMAIN results.failed :
              /\ results.failed[u] = Message(u, LastError(u))
              /\ LastError(u).tag = "HttpError" =>
                    results.failed[u] = StatusMessage(LastError(u).status, u)
        /\ exit = "Err" <=> DOMAIN results.failed # {}
        /\ exit = "Ok" <=> DOMAIN results.failed = {}
        /\ (/\ hist.loaded = {}
            /\ down = {}
            /\ {doc[k] : k \in 1..Len(doc)} = {UrlUp, UrlPlain, UrlGone})
           => /\ results.working = {UrlUp, UrlPlain}
              /\ results.failed = (UrlGone :> <<"[", 503, "] ", UrlGone>>)
              /\ exit = "Err"
        /\ (doc = <<>> /\ hist.loaded = {})
           => results = NewResults /\ exit = "Ok"

\* The run over two URLs answered 200 and one answered 503 has ended.
C12_Witness ==
    /\ mainpc = "exit"
    /\ hist.loaded = {}
    /\ down = {}
    /\ doc = <<UrlUp, UrlGone, UrlPlain>>
    /\ hist.nsel = 3
    /\ UrlGone \in DOMAIN results.failed

NestedInit ==
    InitWith(SeqsUpTo({UrlNested, UrlActions}, MaxDoc), {[kind |-> "missing"]},
             {{}}, {PoolAnswers})

SpecNested == NestedInit /\ [][Next]_vars

\* C14: the check a rewrite starts never rewrites: a future has at most two
\* get_url calls on its stack, was rewritten at most once and holds at most
\* two handles.
C14_OneRewriteLevel ==
    \A f \in DOMAIN futs :
        /\ Len(futs[f].frames) <= 2
        /\ Len(futs[f].rewrites) <= 1
        /\ futs[f].handles <= 2

(***************************************************************************)
(* The outcome of the retry loop.                                          *)
(***************************************************************************)
\* C15: a check without rewrite that ends in an error has sent MaxAttempts
\* requests and its error is that of the last of them: the transport error
\* of the fifth request, or the status of the fifth response, with the
\* Location of that response if the status is a redirection and the header
\* was there, and without a location otherwise.
C15_LastErrorKept ==
    (mainpc = "write" /\ ~is_ok(last.res) /\ last.rewrites = <<>>) =>
        /\ last.attempts = MaxAttempts
        /\ last.final # NoAnswer
        /\ last.final.kind = "err" => last.res = ReqwestError(MaxAttempts)
        /\ last.final.kind = "ok" =>
              /\ last.res.tag = "HttpError"
              /\ last.res.status = last.final.status
              /\ last.res.status # StatusOK
              /\ last.res.location =
                    IF last.final.status >= 300 /\ last.final.status < 400
                    THEN last.final.location
                    ELSE NoLocation

\* A check ended with a 404 whose response had a Location header, and the
\* error has no location.
C15_Witness ==
    /\ mainpc = "write"
    /\ last.rewrites = <<>>
    /\ last.final = [kind |-> "ok", status |-> StatusNotFound, location |-> "loc"]
    /\ last.res = HttpError(StatusNotFound, NoLocation)
    /\ last.attempts = MaxAttempts

\* C16: a check has no request in flight once a response was 200 or five
\* requests were sent; a check without rewrite ends after 1 to MaxAttempts
\* requests, in Ok exactly when its last response was 200, whatever the
\* earlier ones were, and after fewer than MaxAttempts only in Ok.
C16_SuccessEndsLoop ==
    /\ \A f \in DOMAIN futs :
          futs[f].pc = "send" =>
              /\ ~is_ok(futs[f].res)
              /\ futs[f].i < MaxAttempts
              /\ futs[f].final = NoAnswer
    /\ (mainpc = "write" /\ last.rewrites = <<>>) =>
          /\ last.attempts >= 1
          /\ last.attempts <= MaxAttempts
          /\ is_ok(last.res) <=> last.final = Ok200
          /\ last.attempts < MaxAttempts => is_ok(last.res)

\* A check ended in Ok at its third request, after two that failed.
C16_Witness ==
    /\ mainpc = "write"
    /\ last.rewrites = <<>>
    /\ is_ok(last.res)
    /\ last.attempts = 3
    /\ last.url \in results.working

\* C17: no get_url call, nested or not, returns Err(NotTried), no completion
\* main takes carries it, and no message of failed is its rendering.
C17_NotTriedNotReturned ==
    /\ \A f \in DOMAIN futs :
          futs[f].pc \in {"ret", "done"} => futs[f].res # NotTried
    /\ mainpc = "write" => last.res # NotTried
    /\ \A u \in DOMAIN results.failed : results.failed[u] # Message(u, NotTried)

\* The check a rewrite started failed at each of its requests without a
\* response, and its error has been stored under the actions URL.
C17_Witness ==
    /\ mainpc = "write"
    /\ last.rewrites = <<UrlRepo>>
    /\ last.res = ReqwestError(MaxAttempts)
    /\ last.orig \in DOMAIN results.failed

(***************************************************************************)
(* The drain loop and the store.                                           *)
(***************************************************************************)
\* C18: every future pushed to url_checks is either still in url_checks or
\* its output was taken by exactly one iteration of the drain loop; when
\* the loop is left none is pending and there were as many iterations as
\* futures, two checks of one URL counting twice.  An iteration takes the
\* output of one finished future, removes that future alone, records its
\* outcome under its URL and leaves the entries of every other URL as they
\* were, so that the entries of URLs checked once do not depend on the
\* order in which the checks complete.
C18_DrainedOnce ==
    /\ [](/\ Cardinality(url_checks) + hist.nsel = Len(futs)
          /\ \A f \in DOMAIN futs : futs[f].pc = "taken" <=> f \notin url_checks
          /\ mainpc \in {"report", "exit"} =>
                /\ url_checks = {}
                /\ hist.nsel = Len(futs)
                /\ results.working = hist.loaded \cup hist.ok
                /\ DOMAIN results.failed = hist.err)
    /\ [][hist'.nsel # hist.nsel =>
            \E f \in url_checks :
                /\ futs[f].pc = "done"
                /\ url_checks' = url_checks \ {f}
                /\ hist'.nsel = hist.nsel + 1
                /\ \A g \in DOMAIN futs \ {f} : futs'[g] = futs[g]
                /\ Recorded(results', futs[f].url, futs[f].res)
                /\ \A u \in AllUrls \ {futs[f].url} :
                      /\ u \in results'.working <=> u \in results.working
                      /\ u \in DOMAIN results'.failed <=> u \in DOMAIN results.failed
                      /\ u \in DOMAIN results.failed =>
                            results'.failed[u] = results.failed[u]]_vars

\* The run has ended after two checks of the same URL, each taken once.
C18_Witness ==
    /\ mainpc = "exit"
    /\ Len(futs) = 2
    /\ futs[1].url = futs[2].url
    /\ hist.nsel = 2

\* C19: once loaded, working contains the working of the results.yaml that
\* was loaded; no step of the run takes a URL out of working, in results or
\* in what results.yaml holds, so that working contains each of its earlier
\* values.
C19_WorkingGrows ==
    /\ [](mainpc # "load" =>
            /\ hist.loaded \subseteq results.working
            /\ hist.loaded \subseteq from_str(file).working)
    /\ [][results.working \subseteq results'.working]_vars
    /\ [][from_str(file).working \subseteq from_str(file').working]_vars

\* A check of a URL that is in working has failed, next to a working URL
\* that was loaded.
C19_Witness ==
    /\ mainpc = "write"
    /\ ~is_ok(last.res)
    /\ last.url \in results.working
    /\ hist.loaded # {}
    /\ last.url \notin hist.loaded

\* A step of a future of url_checks: of get, of the retry loop, of a
\* rewrite or of a return.
FetcherStep ==
    \E f \in url_checks : futs'[f] # futs[f] /\ f \in url_checks'

\* C20: a step of a future leaves results and results.yaml as they are,
\* and, of the state of main and of the pool, changes at most the count of
\* handles; results changes only when main loads it and when main takes a
\* completion, results.yaml only when main writes it after a completion.
C20_SingleWriter ==
    /\ [][FetcherStep =>
            /\ results' = results
            /\ file' = file
            /\ <<mainpc, doc, pos, url_checks, exit>>' = <<mainpc, doc, pos, url_checks, exit>>
            /\ \A g \in DOMAIN futs :
                  futs'[g] # futs[g] => \A h \in DOMAIN futs \ {g} : futs'[h] = futs[h]]_vars
    /\ [][results' # results =>
            \/ mainpc = "load"
            \/ mainpc = "select" /\ mainpc' = "write" /\ hist'.nsel = hist.nsel + 1]_vars
    /\ [][file' # file => mainpc = "write" /\ file' = to_string(results)]_vars

\* A future is in its retry loop, after a request that failed, while the
\* store holds the outcome of another check and results.yaml was written.
C20_Witness ==
    /\ mainpc = "select"
    /\ hist.nwrite > 0
    /\ DOMAIN results.failed # {}
    /\ file = to_string(results)
    /\ \E f \in url_checks : futs[f].pc = "send" /\ futs[f].i > 0

====
